---- MODULE Spec2Model ----
(***************************************************************************)
(* A model of turdgl: 2D vectors (vec.go), shapes and their rasterisation  *)
(* (Style, shape, Rect, Circle) and the Button state machine (button.go).  *)
(*                                                                         *)
(* Numbers.  The library computes in float64.  Shape coordinates, extents  *)
(* and thicknesses are modelled in fixed point with two fractional bits:   *)
(* the integer q stands for the float q/4, so 4 is one pixel and 2 is half *)
(* a pixel.  All values used are multiples of 1/4 of small magnitude, for  *)
(* which float64 addition, subtraction and halving are exact.  NaN is a    *)
(* separate value with IEEE comparison semantics (Feq, Fne).               *)
(***************************************************************************)
EXTENDS Integers, Sequences, FiniteSets, TLC

VARIABLES
    b,        \* the Button (button.go:15-25)
    upd,      \* what the last Button.Update call did
    bpc,      \* "running", or "panicked" once Update has panicked
    shp,      \* the shape under construction / being drawn (Rect or Circle)
    made,     \* the constructor call that made shp and its arguments
    calls,    \* the SetPixel calls issued by Draw, in order
    buf,      \* the frame buffer Draw paints into
    spc,      \* "start", "built", "drawn" or "panicked"
    vecA,     \* first operand of the vector operation
    vecB,     \* second operand of the vector operation
    vecOp,    \* the vector operation last applied
    dotRes,   \* result of Dot
    vecRes    \* result of Add / Sub

vars == <<b, upd, bpc, shp, made, calls, buf, spc, vecA, vecB, vecOp, dotRes, vecRes>>
buttonVars == <<b, upd, bpc>>
shapeVars == <<shp, made, calls, buf, spc>>
vecVars == <<vecA, vecB, vecOp, dotRes, vecRes>>

----------------------------------------------------------------------------
(* Bounds *)

\* positions range over -1/2 .. MaxPos/2 pixels in half-pixel steps
MaxPos == 1
\* widths, heights and diameters range over -1/2 .. MaxSize/2 pixels
MaxSize == 4
\* at most MaxOpts functional options are passed to a constructor
MaxOpts == 1
\* the frame buffer is BufSize x BufSize pixels
BufSize == 3
\* cursor locations are (k, k) pixels for k in 0 .. MaxCursor
MaxCursor == 2
\* vector components in the vector operations range over -MaxVec .. MaxVec
MaxVec == 2

----------------------------------------------------------------------------
(* float64 *)

\* the float64 NaN (any integer outside the range of the modelled numbers)
NaN == -1000000

IsNaN(x) == x = NaN

\* x == y on float64: false as soon as one side is NaN
Feq(x, y) == ~IsNaN(x) /\ ~IsNaN(y) /\ x = y

\* x != y on float64: true as soon as one side is NaN
Fne(x, y) == ~Feq(x, y)

\* int(math.Round(x)): nearest integer, halves away from zero (x = q/4, finite)
Round(q) == IF q >= 0 THEN (q + 2) \div 4 ELSE -((2 - q) \div 4)

----------------------------------------------------------------------------
(* vec.go *)

Vec(x, y) == [X |-> x, Y |-> y]

Sub(v1, v2) == Vec(v1.X - v2.X, v1.Y - v2.Y)

Add(v1, v2) == Vec(v1.X + v2.X, v1.Y + v2.Y)

Dot(v1, v2) == v1.X * v2.X + v1.Y * v2.X

\* Dist(v1, v2) squared; Dist itself is its square root
DistSq(v1, v2) == (v1.X - v2.X) * (v1.X - v2.X) + (v1.Y - v2.Y) * (v1.Y - v2.Y)

\* Dist(v1, v2) <= r  (the square root is monotonic and exact on squares)
DistLeq(v1, v2, r) == r >= 0 /\ DistSq(v1, v2) <= r * r

\* Dist(v1, v2) >= r
DistGeq(v1, v2, r) == r <= 0 \/ DistSq(v1, v2) >= r * r

----------------------------------------------------------------------------
(* Style, shape and its constructors *)

\* color.RGBA{0xff, 0xff, 0xff, 0xff}, the colour of the default style
White == "white"

Colours == {White, "red"}

Style(colour, thickness) == [Colour |-> colour, Thickness |-> thickness]

\* Normalise(Vec{0, -1}): the magnitude is exactly 1, so the unit vector is (0, -1)
Up == Vec(0, -4)

defaultShape(width, height, pos) ==
    [Pos |-> pos, Direction |-> Up, w |-> width, h |-> height,
     style |-> Style(White, 0)]

\* WithStyle(style) applied to the shape s
WithStyle(style, s) == [s EXCEPT !.style = style]

\* the loop "for _, opt := range opts { opt(s) }"; an option is the style
\* its WithStyle closure holds (WithStyle is the only option the package has)
RECURSIVE ApplyOpts(_, _)
ApplyOpts(s, opts) ==
    IF opts = <<>> THEN s
    ELSE ApplyOpts(WithStyle(Head(opts), s), Tail(opts))

newShape(width, height, pos, opts) ==
    ApplyOpts(defaultShape(width, height, pos), opts)

\* shape.Move
Move(s, mov) == [s EXCEPT !.Pos = Vec(s.Pos.X + mov.X, s.Pos.Y + mov.Y)]

\* shape.SetPos
SetPos(s, v) == [s EXCEPT !.Pos = v]

\* &Rect{shape}: the embedded *shape is the record's shape field
MkRect(s) == [kind |-> "Rect", shape |-> s]

\* &Circle{shape}
MkCircle(s) == [kind |-> "Circle", shape |-> s]

\* NewRect passes no option on to newShape
NewRect(width, height, pos, opts) == MkRect(newShape(width, height, pos, <<>>))

NewCircleWide(diameter, pos, opts) == MkCircle(newShape(diameter + 4, diameter, pos, opts))

NewCircle(diameter, pos, opts) == MkCircle(newShape(diameter, diameter, pos, opts))

----------------------------------------------------------------------------
(* FrameBuffer and NewPixel, by their interface: SetPixel(row, col, pixel)  *)
(* writes one pixel and clips silently when the coordinate is out of range *)

NewPixel(colour) == [rgba |-> colour]

ZeroPixel == [rgba |-> "none"]

BufCoords == (0 .. BufSize - 1) \X (0 .. BufSize - 1)

NewFrameBuffer == [rc \in BufCoords |-> ZeroPixel]

\* one SetPixel call, as Draw issues it
PixelCall(row, col, px) == [row |-> row, col |-> col, px |-> px]

SetPixel(fb, c) ==
    IF <<c.row, c.col>> \in BufCoords
    THEN [fb EXCEPT ![<<c.row, c.col>>] = c.px]
    ELSE fb

RECURSIVE ApplyCalls(_, _)
ApplyCalls(fb, cs) ==
    IF cs = <<>> THEN fb ELSE ApplyCalls(SetPixel(fb, Head(cs)), Tail(cs))

----------------------------------------------------------------------------
(* Rect.Draw and Circle.Draw, as the sequence of SetPixel calls *)

\* number of iterations of "for i := 0; i <= n; i++"
Iter(n) == IF n < 0 THEN 0 ELSE n + 1

\* the solid branch with the loops' bounds exclusive (i < round(w), j < round(h))
RectFillExclusive(r) ==
    LET n == Iter(Round(r.shape.w) - 1)
        m == Iter(Round(r.shape.h) - 1)
        xInt == Round(r.shape.Pos.X)
        yInt == Round(r.shape.Pos.Y)
    IN [k \in 1 .. n * m |->
          PixelCall(yInt + ((k - 1) % m), xInt + ((k - 1) \div m),
                    NewPixel(r.shape.style.Colour))]

\* the solid branch: i over 0 .. round(w) outside, j over 0 .. round(h) inside
RectFill(r) ==
    LET n == Iter(Round(r.shape.w))
        m == Iter(Round(r.shape.h))
        xInt == Round(r.shape.Pos.X)
        yInt == Round(r.shape.Pos.Y)
    IN [k \in 1 .. n * m |->
          PixelCall(yInt + ((k - 1) % m), xInt + ((k - 1) \div m),
                    NewPixel(r.shape.style.Colour))]

\* the four edge rectangles of the outline branch, in drawing order
RectEdges(r) ==
    LET s == r.shape
        t == s.style.Thickness
        edge == <<Style(s.style.Colour, 0)>>
    IN << NewRect(s.w, t, s.Pos, edge),
          NewRect(s.w, t, Vec(s.Pos.X, s.Pos.Y + s.h - t), edge),
          NewRect(t, s.h, Vec(s.Pos.X, s.Pos.Y), edge),
          NewRect(t, s.h, Vec(s.Pos.X + s.w - t, s.Pos.Y), edge) >>

RECURSIVE RectDraw(_)
RectDraw(r) ==
    IF Feq(r.shape.style.Thickness, 0)
    THEN RectFill(r)
    ELSE LET e == RectEdges(r)
         IN RectDraw(e[1]) \o RectDraw(e[2]) \o RectDraw(e[3]) \o RectDraw(e[4])

\* the guard that makes Circle.Draw panic
CirclePanics(c) == Fne(c.shape.w, c.shape.h)

\* Circle.Draw past the guard (w = h, not NaN)
CircleDraw(c) ==
    LET s == c.shape
        radius == s.w \div 2
        bbox == NewRect(s.w, s.h, Vec(s.Pos.X - radius, s.Pos.Y - radius), <<>>)
        \* i := bbox.Pos.X; i <= bbox.Pos.X+bbox.w; i++  (one pixel is 4)
        n == Iter(IF bbox.shape.w < 0 THEN -1 ELSE bbox.shape.w \div 4)
        m == Iter(IF bbox.shape.h < 0 THEN -1 ELSE bbox.shape.h \div 4)
        grid == [k \in 1 .. n * m |->
                   Vec(bbox.shape.Pos.X + 4 * ((k - 1) \div m),
                       bbox.shape.Pos.Y + 4 * ((k - 1) % m))]
        Near(p) ==
            IF Feq(s.style.Thickness, 0)
            THEN DistLeq(s.Pos, p, radius)
            ELSE DistGeq(s.Pos, p, radius - s.style.Thickness)
                 /\ DistLeq(s.Pos, p, radius)
        hit == SelectSeq(grid, Near)
    IN [k \in 1 .. Len(hit) |->
          PixelCall(Round(hit[k].Y), Round(hit[k].X), NewPixel(s.style.Colour))]

----------------------------------------------------------------------------
(* The shape life cycle: construct, move, draw *)

PosVals == {2 * k : k \in -1 .. MaxPos}

Positions == {Vec(x, y) : x \in PosVals, y \in PosVals}

SizeVals == {2 * k : k \in -1 .. MaxSize}

ThickVals == {0, 4}

Styles == {Style(c, t) : c \in Colours, t \in ThickVals}

RECURSIVE SeqsUpTo(_, _)
SeqsUpTo(S, n) ==
    IF n = 0 THEN {<<>>}
    ELSE LET shorter == SeqsUpTo(S, n - 1)
         IN shorter \cup {Append(q, x) : q \in shorter, x \in S}

\* the option lists passed to a constructor: WithStyle(s1), WithStyle(s2), ...
OptSeqs == SeqsUpTo(Styles, MaxOpts)

NoShape == [kind |-> "none", shape |-> defaultShape(0, 0, Vec(0, 0))]

NotMade == [fn |-> "none", args |-> <<>>, opts |-> <<>>]

InitShape ==
    /\ shp = NoShape
    /\ made = NotMade
    /\ calls = <<>>
    /\ buf = NewFrameBuffer
    /\ spc = "start"

\* r := NewRect(width, height, pos, opts...)
CallNewRect ==
    /\ spc = "start"
    /\ \E width \in SizeVals, height \in SizeVals, pos \in Positions, opts \in OptSeqs :
          /\ shp' = NewRect(width, height, pos, opts)
          /\ made' = [fn |-> "NewRect", args |-> <<width, height>>, opts |-> opts]
    /\ spc' = "built"
    /\ UNCHANGED <<calls, buf>>
    /\ UNCHANGED <<buttonVars, vecVars>>

\* c := NewCircle(diameter, pos, opts...)
CallNewCircle ==
    /\ spc = "start"
    /\ \E diameter \in SizeVals \cup {NaN}, pos \in Positions, opts \in OptSeqs :
          /\ shp' = NewCircle(diameter, pos, opts)
          /\ made' = [fn |-> "NewCircle", args |-> <<diameter>>, opts |-> opts]
    /\ spc' = "built"
    /\ UNCHANGED <<calls, buf>>
    /\ UNCHANGED <<buttonVars, vecVars>>

\* inside the package: &Rect{newShape(width, height, pos, opts...)}
CallNewShapeRect ==
    /\ spc = "start"
    /\ \E width \in SizeVals, height \in SizeVals, pos \in Positions, opts \in OptSeqs :
          /\ shp' = MkRect(newShape(width, height, pos, opts))
          /\ made' = [fn |-> "newShape", args |-> <<width, height>>, opts |-> opts]
    /\ spc' = "built"
    /\ UNCHANGED <<calls, buf>>
    /\ UNCHANGED <<buttonVars, vecVars>>

\* inside the package: &Circle{newShape(width, height, pos, opts...)}
CallNewShapeCircle ==
    /\ spc = "start"
    /\ \E width \in SizeVals \cup {NaN}, height \in SizeVals \cup {NaN},
          pos \in Positions, opts \in OptSeqs :
          /\ shp' = MkCircle(newShape(width, height, pos, opts))
          /\ made' = [fn |-> "newShape", args |-> <<width, height>>, opts |-> opts]
    /\ spc' = "built"
    /\ UNCHANGED <<calls, buf>>
    /\ UNCHANGED <<buttonVars, vecVars>>

\* shp.Move(mov), the position kept within the modelled range
CallMove ==
    /\ spc = "built"
    /\ \E mov \in {Vec(dx, dy) : dx \in {-2, 0, 2}, dy \in {-2, 0, 2}} :
          /\ Move(shp.shape, mov).Pos \in Positions
          /\ shp' = [shp EXCEPT !.shape = Move(shp.shape, mov)]
    /\ UNCHANGED <<made, calls, buf, spc>>
    /\ UNCHANGED <<buttonVars, vecVars>>

\* shp.SetPos(v)
CallSetPos ==
    /\ spc = "built"
    /\ \E v \in Positions : shp' = [shp EXCEPT !.shape = SetPos(shp.shape, v)]
    /\ UNCHANGED <<made, calls, buf, spc>>
    /\ UNCHANGED <<buttonVars, vecVars>>

\* r.Draw(buf) on a Rect
DrawRect ==
    /\ spc = "built"
    /\ shp.kind = "Rect"
    /\ calls' = RectDraw(shp)
    /\ buf' = ApplyCalls(buf, calls')
    /\ spc' = "drawn"
    /\ UNCHANGED <<shp, made>>
    /\ UNCHANGED <<buttonVars, vecVars>>

\* c.Draw(buf) on a Circle: panics when w != h, before any SetPixel
DrawCircle ==
    /\ spc = "built"
    /\ shp.kind = "Circle"
    /\ IF CirclePanics(shp)
       THEN /\ spc' = "panicked"
            /\ UNCHANGED <<calls, buf>>
       ELSE /\ calls' = CircleDraw(shp)
            /\ buf' = ApplyCalls(buf, calls')
            /\ spc' = "drawn"
    /\ UNCHANGED <<shp, made>>
    /\ UNCHANGED <<buttonVars, vecVars>>

NextShape ==
    \/ CallNewRect
    \/ CallNewCircle
    \/ CallNewShapeRect
    \/ CallNewShapeCircle
    \/ CallMove
    \/ CallSetPos
    \/ DrawRect
    \/ DrawCircle

----------------------------------------------------------------------------
(* The vector operations applied to bounded integer vectors *)

VecVals == {Vec(x, y) : x \in -MaxVec .. MaxVec, y \in -MaxVec .. MaxVec}

InitVec ==
    /\ vecA \in VecVals
    /\ vecB \in VecVals
    /\ vecOp = "none"
    /\ dotRes = 0
    /\ vecRes = Vec(0, 0)

DoDot ==
    /\ vecOp' = "Dot"
    /\ dotRes' = Dot(vecA, vecB)
    /\ vecRes' = Vec(0, 0)
    /\ UNCHANGED <<vecA, vecB>>
    /\ UNCHANGED <<buttonVars, shapeVars>>

DoAdd ==
    /\ vecOp' = "Add"
    /\ vecRes' = Add(vecA, vecB)
    /\ dotRes' = 0
    /\ UNCHANGED <<vecA, vecB>>
    /\ UNCHANGED <<buttonVars, shapeVars>>

DoSub ==
    /\ vecOp' = "Sub"
    /\ vecRes' = Sub(vecA, vecB)
    /\ dotRes' = 0
    /\ UNCHANGED <<vecA, vecB>>
    /\ UNCHANGED <<buttonVars, shapeVars>>

NextVec ==
    \/ DoDot
    \/ DoAdd
    \/ DoSub

----------------------------------------------------------------------------
(* button.go *)

\* MouseState, as the window reports it
NoClick == "NoClick"
LeftClick == "LeftClick"
RightClick == "RightClick"
MouseStates == {NoClick, LeftClick, RightClick}

\* ButtonBehaviour (iota)
OnAll == 0
OnPress == 1
OnRelease == 2
OnPressAndRelease == 3
OnHold == 4
OnHover == 5

SupportedBehaviours == {OnAll, OnPress, OnRelease, OnPressAndRelease, OnHold, OnHover}

\* ButtonBehaviour is an int: a value outside the constants is possible
Behaviours == SupportedBehaviours \cup {OnHover + 1}

\* the hoverable contract: Rect by its axis-aligned bounds, Circle by the
\* distance to its centre
IsWithin(sh, p) ==
    IF sh.kind = "Rect"
    THEN /\ sh.shape.Pos.X <= p.X /\ p.X <= sh.shape.Pos.X + sh.shape.w
         /\ sh.shape.Pos.Y <= p.Y /\ p.Y <= sh.shape.Pos.Y + sh.shape.h
    ELSE DistLeq(sh.shape.Pos, p, sh.shape.w \div 2)

\* case OnHover
OnHoverFires(hovering, prev, cur, trigger) == hovering

OnPressFiresWhileHeld(hovering, prev, cur, trigger) == hovering /\ cur = trigger

\* case OnPress
OnPressFires(hovering, prev, cur, trigger) ==
    hovering /\ (prev = NoClick /\ cur = trigger)

OnReleaseFiresAnywhere(hovering, prev, cur, trigger) ==
    prev = trigger /\ cur = NoClick

\* case OnRelease
OnReleaseFires(hovering, prev, cur, trigger) ==
    hovering /\ (prev = trigger /\ cur = NoClick)

OnPressAndReleaseFiresOnTrigger(hovering, prev, cur, trigger) ==
    hovering /\ (prev # cur) /\ (prev = trigger \/ cur = trigger)

\* case OnPressAndRelease
OnPressAndReleaseFires(hovering, prev, cur, trigger) ==
    hovering /\ (prev # cur)

OnHoldFiresOnEdge(hovering, prev, cur, trigger) ==
    hovering /\ (prev # cur) /\ (cur = trigger)

\* case OnHold
OnHoldFires(hovering, prev, cur, trigger) ==
    hovering /\ (cur = trigger)

\* the switch of Update, for a supported behaviour: whether b.CB is called
Fires(behaviour, hovering, prev, cur, trigger) ==
    CASE behaviour = OnAll -> TRUE
      [] behaviour = OnHover -> OnHoverFires(hovering, prev, cur, trigger)
      [] behaviour = OnPress -> OnPressFires(hovering, prev, cur, trigger)
      [] behaviour = OnRelease -> OnReleaseFires(hovering, prev, cur, trigger)
      [] behaviour = OnPressAndRelease ->
            OnPressAndReleaseFires(hovering, prev, cur, trigger)
      [] behaviour = OnHold -> OnHoldFires(hovering, prev, cur, trigger)

CursorLocs == {Vec(4 * k, 4 * k) : k \in 0 .. MaxCursor}

\* the shapes a button is built on
ButtonShapes == {NewRect(8, 8, Vec(4, 4), <<>>), NewCircle(8, Vec(8, 8), <<>>)}

\* NewButton(shape, fontPath); the label plays no part in Update and is left out
NewButton(shape) ==
    [Shape |-> shape, CB |-> "warning", Trigger |-> LeftClick, Behaviour |-> OnAll,
     prevMouseState |-> NoClick, prevMouseLoc |-> Vec(0, 0)]

\* no Update has run since the button was last configured
NoUpdate ==
    [ran |-> FALSE, panicked |-> FALSE, prev |-> NoClick, cur |-> NoClick,
     loc |-> Vec(0, 0), hovering |-> FALSE, cbArgs |-> <<>>]

InitButton ==
    /\ b \in {NewButton(sh) : sh \in ButtonShapes}
    /\ upd = NoUpdate
    /\ bpc = "running"

\* b.SetCallback(callback)
SetCallback ==
    /\ bpc = "running"
    /\ b' = [b EXCEPT !.CB = "callback"]
    /\ UNCHANGED <<upd, bpc>>
    /\ UNCHANGED <<shapeVars, vecVars>>

\* b.Trigger = t (an exported field)
AssignTrigger ==
    /\ bpc = "running"
    /\ \E t \in MouseStates : b' = [b EXCEPT !.Trigger = t]
    /\ upd' = NoUpdate
    /\ UNCHANGED bpc
    /\ UNCHANGED <<shapeVars, vecVars>>

\* b.Behaviour = x (an exported field)
AssignBehaviour ==
    /\ bpc = "running"
    /\ \E x \in Behaviours : b' = [b EXCEPT !.Behaviour = x]
    /\ upd' = NoUpdate
    /\ UNCHANGED bpc
    /\ UNCHANGED <<shapeVars, vecVars>>

\* b.Update(win).  The window is polled at the top of the call (mouse state,
\* then cursor location) and again at the bottom; atTop and atBottom are what
\* it reports there, which differ when the input changes during the call.
Update ==
    /\ bpc = "running"
    /\ \E atTopState \in MouseStates, atTopLoc \in CursorLocs,
          atBottomState \in MouseStates, atBottomLoc \in CursorLocs :
          LET currentMouseState == atTopState
              hovering == IsWithin(b.Shape, atTopLoc)
              seen == [ran |-> TRUE, panicked |-> FALSE, prev |-> b.prevMouseState,
                       cur |-> currentMouseState, loc |-> atTopLoc,
                       hovering |-> hovering, cbArgs |-> <<>>]
          IN IF b.Behaviour \in SupportedBehaviours
             THEN /\ upd' = [seen EXCEPT !.cbArgs =
                               IF Fires(b.Behaviour, hovering, b.prevMouseState,
                                        currentMouseState, b.Trigger)
                               THEN <<currentMouseState>> ELSE <<>>]
                  /\ b' = [b EXCEPT !.prevMouseState = atBottomState,
                                    !.prevMouseLoc = atBottomLoc]
                  /\ UNCHANGED bpc
             ELSE /\ upd' = [seen EXCEPT !.panicked = TRUE]
                  /\ bpc' = "panicked"
                  /\ UNCHANGED b
    /\ UNCHANGED <<shapeVars, vecVars>>

NextButton ==
    \/ SetCallback
    \/ AssignTrigger
    \/ AssignBehaviour
    \/ Update

----------------------------------------------------------------------------
(* Specifications *)

\* the button driven by the frame loop
Init == InitButton /\ InitShape /\ vecA = Vec(0, 0) /\ vecB = Vec(0, 0)
        /\ vecOp = "none" /\ dotRes = 0 /\ vecRes = Vec(0, 0)

Next == NextButton

Spec == Init /\ [][Next]_vars

\* one shape constructed, moved and drawn
ShapeInit == InitShape /\ b = NewButton(NoShape) /\ upd = NoUpdate /\ bpc = "idle"
             /\ vecA = Vec(0, 0) /\ vecB = Vec(0, 0)
             /\ vecOp = "none" /\ dotRes = 0 /\ vecRes = Vec(0, 0)

ShapeNext == NextShape

ShapeSpec == ShapeInit /\ [][ShapeNext]_vars

\* the vector operations on bounded inputs
VecInit == InitVec /\ InitShape /\ b = NewButton(NoShape) /\ upd = NoUpdate
           /\ bpc = "idle"

VecNext == NextVec

VecSpec == VecInit /\ [][VecNext]_vars

----------------------------------------------------------------------------
(* Properties of Button.Update *)

\* number of times the last Update called b.CB
CallbackCalls == Len(upd.cbArgs)

\* the last Update ran to its end under the present configuration
Updated == upd.ran /\ ~upd.panicked

\* the cursor, as polled at the top of the last Update, was within the shape
CursorWithin == IsWithin(b.Shape, upd.loc)

\* C1: with Behaviour = OnPress the callback is called in an Update exactly
\* when the cursor is within the shape, the mouse state stored by the previous
\* Update is NoClick and the current mouse state is the Trigger, and then once.
C1_OnPress ==
    (Updated /\ b.Behaviour = OnPress) =>
        CallbackCalls =
            IF CursorWithin /\ upd.prev = NoClick /\ upd.cur = b.Trigger
            THEN 1 ELSE 0

\* an OnPress button, hovered, NoClick -> LeftClick: the callback ran once
C1_Witness ==
    /\ Updated /\ b.Behaviour = OnPress /\ b.Trigger = LeftClick
    /\ CursorWithin /\ upd.prev = NoClick /\ upd.cur = LeftClick
    /\ CallbackCalls = 1

\* C2: with Behaviour = OnHold and Trigger = LeftClick the callback is called
\* once in every Update with the cursor within the shape and the current state
\* LeftClick, whatever the previous state, and in no other Update.
C2_OnHold ==
    (Updated /\ b.Behaviour = OnHold /\ b.Trigger = LeftClick) =>
        CallbackCalls = IF CursorWithin /\ upd.cur = LeftClick THEN 1 ELSE 0

\* an OnHold button held over consecutive frames: the callback ran again
C2_Witness ==
    /\ Updated /\ b.Behaviour = OnHold /\ b.Trigger = LeftClick
    /\ CursorWithin /\ upd.prev = LeftClick /\ upd.cur = LeftClick
    /\ CallbackCalls = 1

\* C3: with Behaviour = OnPressAndRelease, while hovering, the callback is
\* called once in each Update whose current state differs from the stored one,
\* whatever the Trigger, and never when the two are equal.
C3_OnPressAndRelease ==
    (Updated /\ b.Behaviour = OnPressAndRelease) =>
        /\ CursorWithin => CallbackCalls = IF upd.cur # upd.prev THEN 1 ELSE 0
        /\ upd.cur = upd.prev => CallbackCalls = 0

\* a transition that does not involve the Trigger fires too
C3_Witness ==
    /\ Updated /\ b.Behaviour = OnPressAndRelease /\ b.Trigger = LeftClick
    /\ CursorWithin /\ upd.prev = RightClick /\ upd.cur = NoClick
    /\ CallbackCalls = 1

\* C4: with Behaviour = OnRelease the callback is called in an Update exactly
\* when the cursor is within the shape, the stored state is the Trigger and the
\* current state is NoClick.
C4_OnRelease ==
    (Updated /\ b.Behaviour = OnRelease) =>
        CallbackCalls =
            IF CursorWithin /\ upd.prev = b.Trigger /\ upd.cur = NoClick
            THEN 1 ELSE 0

\* the trigger button released outside the shape: no callback
C4_Witness ==
    /\ Updated /\ b.Behaviour = OnRelease /\ b.Trigger = LeftClick
    /\ ~CursorWithin /\ upd.prev = LeftClick /\ upd.cur = NoClick
    /\ CallbackCalls = 0

\* C5: after every Update the stored previous mouse state and cursor location
\* are the ones captured at the start of that call.
C5_HistoryIsCapturedInput ==
    Updated => (b.prevMouseState = upd.cur /\ b.prevMouseLoc = upd.loc)

----------------------------------------------------------------------------
(* Properties of the shapes *)

CallSet == {calls[k] : k \in 1 .. Len(calls)}

DrawnRect == spc = "drawn" /\ shp.kind = "Rect"

\* the pixel calls of colour c over columns x0 .. x1 and rows y0 .. y1
Block(x0, x1, y0, y1, c) ==
    {PixelCall(row, col, NewPixel(c)) : row \in y0 .. y1, col \in x0 .. x1}

\* C6: a Rect of thickness 0 draws exactly the pixels (row, col) with
\* round(x) <= col <= round(x)+round(w), round(y) <= row <= round(y)+round(h),
\* each in the style colour.
C6_RectFill ==
    (DrawnRect /\ shp.shape.style.Thickness = 0) =>
        LET s == shp.shape
        IN CallSet = Block(Round(s.Pos.X), Round(s.Pos.X) + Round(s.w),
                           Round(s.Pos.Y), Round(s.Pos.Y) + Round(s.h),
                           s.style.Colour)

\* the 2 x 2 rectangle at (0, 0): the 9 pixels of rows and columns 0 .. 2
C6_Witness ==
    /\ DrawnRect /\ shp.shape.style.Thickness = 0
    /\ shp.shape.Pos = Vec(0, 0) /\ shp.shape.w = 8 /\ shp.shape.h = 8
    /\ Cardinality(CallSet) = 9
    /\ \A c \in CallSet : c.row \in 0 .. 2 /\ c.col \in 0 .. 2

\* the style the options ask for: the default, overridden in order
AskedStyle == IF made.opts = <<>> THEN Style(White, 0) ELSE made.opts[Len(made.opts)]

\* C7: NewRect and NewCircle alike give the shape the default style overridden
\* by the options passed.
C7_ConstructorsApplyOptions ==
    made.fn \in {"NewRect", "NewCircle"} => shp.shape.style = AskedStyle

\* Draw was called on a circle whose width differs from its height
UnequalCircleDrawn ==
    /\ shp.kind = "Circle" /\ spc \in {"drawn", "panicked"}
    /\ Fne(shp.shape.w, shp.shape.h)

\* Draw panicked without a pixel written
PanickedClean == spc = "panicked" /\ calls = <<>> /\ buf = NewFrameBuffer

\* C8 as claimed: Draw on a circle with width != height panics before any
\* SetPixel, and a circle made by NewCircle has width == height whatever is
\* done to it, so that its Draw does not panic.
C8_AsClaimed ==
    /\ UnequalCircleDrawn => PanickedClean
    /\ made.fn = "NewCircle" =>
          (Feq(shp.shape.w, shp.shape.h) /\ spc # "panicked")

\* C8 amended: the same for NewCircle called with a diameter that is not NaN;
\* with a NaN diameter width != height holds and Draw panics.
C8_Amended ==
    /\ UnequalCircleDrawn => PanickedClean
    /\ (made.fn = "NewCircle" /\ ~IsNaN(made.args[1])) =>
          (Feq(shp.shape.w, shp.shape.h) /\ spc # "panicked")
    /\ (made.fn = "NewCircle" /\ IsNaN(made.args[1])) =>
          (Fne(shp.shape.w, shp.shape.h) /\ spc # "drawn")

\* a circle of finite, different width and height was drawn: the panic
C8_Witness ==
    /\ UnequalCircleDrawn /\ spc = "panicked"
    /\ ~IsNaN(shp.shape.w) /\ ~IsNaN(shp.shape.h)

\* the four edge bands of an outlined Rect, bounds inclusive
InBands(c) ==
    LET s == shp.shape
        t == s.style.Thickness
        x0 == Round(s.Pos.X)
        y0 == Round(s.Pos.Y)
        xr == Round(s.Pos.X + s.w - t)
        yb == Round(s.Pos.Y + s.h - t)
        Within(lo, n, v) == lo <= v /\ v <= lo + n
    IN \/ Within(x0, Round(s.w), c.col) /\ Within(y0, Round(t), c.row)
       \/ Within(x0, Round(s.w), c.col) /\ Within(yb, Round(t), c.row)
       \/ Within(x0, Round(t), c.col) /\ Within(y0, Round(s.h), c.row)
       \/ Within(xr, Round(t), c.col) /\ Within(y0, Round(s.h), c.row)

\* C9: a Rect of thickness t > 0 and colour c writes pixels only inside its
\* four edge bands, each of them in colour c.
C9_OutlineInOwnColour ==
    (DrawnRect /\ shp.shape.style.Thickness > 0) =>
        \A c \in CallSet : InBands(c) /\ c.px = NewPixel(shp.shape.style.Colour)

----------------------------------------------------------------------------
(* Properties of the vector operations *)

\* C10: Dot(v1, v2) is the dot product v1.X*v2.X + v1.Y*v2.Y.
C10_DotProduct ==
    vecOp = "Dot" => dotRes = vecA.X * vecB.X + vecA.Y * vecB.Y

====
